---- MODULE Spec2Model ----
(***************************************************************************)
(* Model of src/app.py: a Streamlit chat front end that keeps              *)
(* conversations as one JSON document per conversation id, custom personas *)
(* as one JSON mapping, and a legacy single-history document.              *)
(*                                                                         *)
(* Text is a sequence of segments.  A segment is either one special        *)
(* character (a whitespace character, a double quote, a backslash) or a    *)
(* run of ordinary characters that begins and ends with a non-whitespace   *)
(* character, so that str.strip() and JSON escaping act segment by         *)
(* segment exactly as they act on the characters.                          *)
(***************************************************************************)
EXTENDS Integers, Sequences, FiniteSets, TLC

\* ------------------------------------------------------------------ bounds
MaxIds == 2
MaxClock == 4
MaxMsgs == 4
MaxCustom == 2

\* -------------------------------------------------------------------- text
Whitespace == {" ", "\n", "\t"}

RECURSIVE LStrip(_)
LStrip(t) ==
  IF t # <<>> /\ Head(t) \in Whitespace THEN LStrip(Tail(t)) ELSE t

RECURSIVE RStrip(_)
RStrip(t) ==
  IF t # <<>> /\ t[Len(t)] \in Whitespace
  THEN RStrip(SubSeq(t, 1, Len(t) - 1)) ELSE t

\* A strip() that was left out: the text as entered.
Strip_omitted(t) == t

\* str.strip()
Strip(t) == RStrip(LStrip(t))

\* ----------------------------------------------------- insertion-ordered dict
\* A Python dict of str -> str: a sequence of [k, v] in insertion order.
DictKeys(d) == [i \in DOMAIN d |-> d[i].k]

DictHas(d, key) == \E i \in DOMAIN d : d[i].k = key

DictGet(d, key) == d[CHOOSE i \in DOMAIN d : d[i].k = key].v

\* d[key] = val
DictSet(d, key, val) ==
  IF DictHas(d, key)
  THEN [i \in DOMAIN d |-> IF d[i].k = key THEN [k |-> key, v |-> val] ELSE d[i]]
  ELSE Append(d, [k |-> key, v |-> val])

\* del d[key]
DictDel(d, key) == SelectSeq(d, LAMBDA e : e.k # key)

\* d.update(e)
RECURSIVE DictUpdate(_, _)
DictUpdate(d, e) ==
  IF e = <<>> THEN d
  ELSE DictUpdate(DictSet(d, Head(e).k, Head(e).v), Tail(e))

\* dict equality (order-insensitive, as in Python)
DictEq(d, e) ==
  /\ \A i \in DOMAIN d : DictHas(e, d[i].k) /\ DictGet(e, d[i].k) = d[i].v
  /\ \A i \in DOMAIN e : DictHas(d, e[i].k)

\* -------------------------------------------------------------------- JSON
\* json.dump(..., ensure_ascii=False): inside a string literal the double
\* quote, the backslash and the control characters are written as escapes.
JsonEscape(t) ==
  [i \in DOMAIN t |->
     CASE t[i] = "\"" -> "\\\""
       [] t[i] = "\\" -> "\\\\"
       [] t[i] = "\n" -> "\\n"
       [] t[i] = "\t" -> "\\t"
       [] OTHER -> t[i]]

\* json.load: the escapes of a string literal are read back.
JsonUnescape(t) ==
  [i \in DOMAIN t |->
     CASE t[i] = "\\\"" -> "\""
       [] t[i] = "\\\\" -> "\\"
       [] t[i] = "\\n" -> "\n"
       [] t[i] = "\\t" -> "\t"
       [] OTHER -> t[i]]

\* The value of member `key` of a written JSON object (a sequence of members).
Member(obj, key) == obj[CHOOSE i \in DOMAIN obj : obj[i].key = key].val

DumpMessage(m) ==
  << [key |-> "role", val |-> m.role],
     [key |-> "content", val |-> JsonEscape(m.content)] >>

ParseMessage(o) ==
  [role |-> Member(o, "role"), content |-> JsonUnescape(Member(o, "content"))]

\* json.dump(conversation_data, f, ...): the members in the dict's key order.
JsonDumpConversation(c) ==
  << [key |-> "id", val |-> c.id],
     [key |-> "name", val |-> JsonEscape(c.name)],
     [key |-> "created_at", val |-> c.created_at],
     [key |-> "updated_at", val |-> c.updated_at],
     [key |-> "messages", val |-> [i \in DOMAIN c.messages |-> DumpMessage(c.messages[i])]],
     [key |-> "system_prompt", val |-> JsonEscape(c.system_prompt)] >>

\* json.load(f) of a conversation document.
JsonLoadConversation(doc) ==
  [id |-> Member(doc, "id"),
   name |-> JsonUnescape(Member(doc, "name")),
   created_at |-> Member(doc, "created_at"),
   updated_at |-> Member(doc, "updated_at"),
   messages |-> LET ms == Member(doc, "messages") IN [i \in DOMAIN ms |-> ParseMessage(ms[i])],
   system_prompt |-> JsonUnescape(Member(doc, "system_prompt"))]

\* json.dump / json.load of a str -> str mapping (the custom personas).
JsonDumpDict(d) == [i \in DOMAIN d |-> [key |-> JsonEscape(d[i].k), val |-> JsonEscape(d[i].v)]]

JsonLoadDict(doc) == [i \in DOMAIN doc |-> [k |-> JsonUnescape(doc[i].key), v |-> JsonUnescape(doc[i].val)]]

\* ---------------------------------------------------------------- constants
NoId == 0

\* The text "New Conversation" etc.: one segment each where no strip or
\* escape can split it.
NewConversationName == <<"New Conversation">>
MigratedName == <<"Migrated Conversation">>
ImportedName == <<"Imported Conversation">>

PREDEFINED_PERSONAS ==
  << [k |-> <<"Default">>, v |-> <<>>],
     [k |-> <<"Helpful Assistant">>,
      v |-> <<"You are a helpful, harmless, and honest AI assistant. Always be polite and provide accurate information.">>],
     [k |-> <<"Code Expert">>,
      v |-> <<"You are an expert programmer and software engineer. Provide clear, well-commented code examples and technical explanations.">>],
     [k |-> <<"Creative Writer">>,
      v |-> <<"You are a creative writing assistant. Help with storytelling, character development, and creative expression.">>],
     [k |-> <<"Teacher">>,
      v |-> <<"You are a patient and encouraging teacher. Explain concepts clearly with examples and check for understanding.">>],
     [k |-> <<"Scientist">>,
      v |-> <<"You are a knowledgeable scientist. Provide evidence-based explanations and encourage scientific thinking.">>],
     [k |-> <<"Philosopher">>,
      v |-> <<"You are a thoughtful philosopher. Explore deep questions about existence, ethics, and meaning.">>],
     [k |-> <<"Comedian">>,
      v |-> <<"You are a witty comedian. Be humorous while still being helpful and appropriate.">>],
     [k |-> <<"Professional">>,
      v |-> <<"You are a professional business assistant. Be formal, efficient, and focused on practical solutions.">>] >>

templates ==
  << [k |-> <<"Domain Expert">>,
      v |-> <<"You are an expert in [DOMAIN]. Provide detailed, accurate information and practical advice in this field.">>],
     [k |-> <<"Debug Helper">>,
      v |-> <<"You are a debugging assistant. Help identify issues, suggest solutions, and explain problems step by step.">>],
     [k |-> <<"Documentation Writer">>,
      v |-> <<"You are a technical documentation writer. Create clear, comprehensive documentation with examples.">>],
     [k |-> <<"Project Manager">>,
      v |-> <<"You are a project management assistant. Help with planning, organization, and workflow optimization.">>],
     [k |-> <<"Research Assistant">>,
      v |-> <<"You are a research assistant. Help gather information, analyze data, and summarize findings.">>] >>

\* ------------------------------------------------------- conversation store
\* The conversations directory: a function from conversation id to the
\* document written under <id>.json.
NoFiles == << >>

Put(fs, id, doc) == [i \in (DOMAIN fs) \cup {id} |-> IF i = id THEN doc ELSE fs[i]]

Remove(fs, id) == [i \in (DOMAIN fs) \ {id} |-> fs[i]]

DefaultConversation(id, now) ==
  [id |-> id, name |-> NewConversationName, created_at |-> now, updated_at |-> now,
   messages |-> <<>>, system_prompt |-> <<>>]

\* A document is read back whole or not at all: a file cut short (an
\* interrupted write, an empty file) is not JSON and json.load raises
\* JSONDecodeError on it.
ConversationKeys == {"id", "name", "created_at", "updated_at", "messages", "system_prompt"}

Parses(doc) == \A k \in ConversationKeys : \E i \in DOMAIN doc : doc[i].key = k

\* line 188: json.load(f) raises and load_conversation has no handler.
load_conversation_raises(fs, id) == id \in DOMAIN fs /\ ~Parses(fs[id])

\* load_conversation where json.load(f) returned.
load_conversation(fs, id, now) ==
  IF id \in DOMAIN fs THEN JsonLoadConversation(fs[id]) ELSE DefaultConversation(id, now)

\* An emptiness test that takes either condition for both.
is_conversation_empty_either(c) ==
  Len(c.messages) = 0 \/ Strip(c.system_prompt) = <<>>

is_conversation_empty(c) ==
  Len(c.messages) = 0 /\ Strip(c.system_prompt) = <<>>

\* A save that never skips the write.
save_conversation_unguarded(fs, c, force_save, now) ==
  LET c2 == [c EXCEPT !.updated_at = now]
  IN [files |-> Put(fs, c2.id, JsonDumpConversation(c2)), ret |-> TRUE, conv |-> c2]

\* Returns the directory, the return value and the dict as mutated in place.
save_conversation(fs, c, force_save, now) ==
  IF ~force_save /\ is_conversation_empty(c)
  THEN [files |-> fs, ret |-> FALSE, conv |-> c]
  ELSE LET c2 == [c EXCEPT !.updated_at = now]
       IN [files |-> Put(fs, c2.id, JsonDumpConversation(c2)), ret |-> TRUE, conv |-> c2]

\* A clear that reports success without removing the file.
clear_conversation_keeps_file(fs, c, now) ==
  IF Len(c.messages) = 0 /\ Strip(c.system_prompt) = <<>>
  THEN [files |-> fs, ret |-> TRUE, conv |-> c]
  ELSE LET c2 == [c EXCEPT !.updated_at = now]
       IN [files |-> Put(fs, c2.id, JsonDumpConversation(c2)), ret |-> FALSE, conv |-> c2]

clear_conversation_if_empty(fs, c, now) ==
  IF is_conversation_empty(c)
  THEN [files |-> Remove(fs, c.id), ret |-> TRUE, conv |-> c]
  ELSE LET s == save_conversation(fs, c, TRUE, now)
       IN [files |-> s.files, ret |-> FALSE, conv |-> s.conv]

delete_conversation(fs, id) == Remove(fs, id)

Summary(id, c) ==
  [id |-> id, name |-> c.name, updated_at |-> c.updated_at,
   message_count |-> Len(c.messages)]

\* conversations.sort(key=updated_at, reverse=True): the most recently
\* updated first.  Equal keys keep the directory's order, which is arbitrary.
RECURSIVE SortByUpdated(_, _)
SortByUpdated(fs, ids) ==
  IF ids = {} THEN <<>>
  ELSE LET top == CHOOSE i \in ids :
                    \A j \in ids : load_conversation(fs, j, 0).updated_at
                                     <= load_conversation(fs, i, 0).updated_at
       IN <<Summary(top, load_conversation(fs, top, 0))>> \o SortByUpdated(fs, ids \ {top})

\* A listing in directory order, not sorted.
RECURSIVE InIdOrder(_, _)
InIdOrder(fs, ids) ==
  IF ids = {} THEN <<>>
  ELSE LET low == CHOOSE i \in ids : \A j \in ids : i <= j
       IN <<Summary(low, load_conversation(fs, low, 0))>> \o InIdOrder(fs, ids \ {low})

list_conversations_unsorted(fs) ==
  InIdOrder(fs, {id \in DOMAIN fs : ~load_conversation_raises(fs, id)})

\* lines 228-248: a document whose load raises is skipped (except: continue).
list_conversations(fs) ==
  SortByUpdated(fs, {id \in DOMAIN fs : ~load_conversation_raises(fs, id)})

\* ----------------------------------------------------------- legacy history
NoHistory == [exists |-> FALSE, kind |-> "none", items |-> <<>>, members |-> <<>>]

\* json.dump of {"messages": [...], "system_prompt": "..."}
JsonDumpHistory(h) ==
  [exists |-> TRUE, kind |-> "object", items |-> <<>>,
   members |-> << [key |-> "messages", val |-> [i \in DOMAIN h.messages |-> DumpMessage(h.messages[i])]],
                  [key |-> "system_prompt", val |-> JsonEscape(h.system_prompt)] >>]

\* json.dump of a bare list of messages (the old format)
JsonDumpList(ms) ==
  [exists |-> TRUE, kind |-> "list", items |-> [i \in DOMAIN ms |-> DumpMessage(ms[i])],
   members |-> <<>>]

EmptyHistory == [messages |-> <<>>, system_prompt |-> <<>>]

load_history(hf) ==
  IF hf.exists
  THEN IF hf.kind = "list"
       THEN [messages |-> [i \in DOMAIN hf.items |-> ParseMessage(hf.items[i])],
             system_prompt |-> <<>>]
       ELSE [messages |-> LET ms == Member(hf.members, "messages")
                          IN [i \in DOMAIN ms |-> ParseMessage(ms[i])],
             system_prompt |-> JsonUnescape(Member(hf.members, "system_prompt"))]
  ELSE EmptyHistory

save_history(h) == JsonDumpHistory(h)

\* A migration that leaves the legacy file as it found it.
migrate_old_history_keeps_legacy(fs, hf, uuid, now) ==
  LET old_data == load_history(hf)
      conversation_id == uuid + 1
      conversation_data ==
        [id |-> conversation_id, name |-> MigratedName, created_at |-> now,
         updated_at |-> now, messages |-> old_data.messages,
         system_prompt |-> old_data.system_prompt]
  IN IF hf.exists /\ (old_data.messages # <<>> \/ old_data.system_prompt # <<>>)
     THEN [files |-> Put(fs, conversation_id, JsonDumpConversation(conversation_data)),
           history |-> hf,
           uuid |-> conversation_id, ret |-> conversation_id]
     ELSE [files |-> fs, history |-> hf, uuid |-> uuid, ret |-> NoId]

\* Returns the directory, the history file, the uuid counter and the id
\* returned (NoId for None).
migrate_old_history(fs, hf, uuid, now) ==
  LET old_data == load_history(hf)
      conversation_id == uuid + 1
      conversation_data ==
        [id |-> conversation_id, name |-> MigratedName, created_at |-> now,
         updated_at |-> now, messages |-> old_data.messages,
         system_prompt |-> old_data.system_prompt]
  IN IF hf.exists /\ (old_data.messages # <<>> \/ old_data.system_prompt # <<>>)
     THEN [files |-> save_conversation(fs, conversation_data, TRUE, now).files,
           history |-> save_history(EmptyHistory),
           uuid |-> conversation_id, ret |-> conversation_id]
     ELSE [files |-> fs, history |-> hf, uuid |-> uuid, ret |-> NoId]

\* ------------------------------------------------------------ persona store
NoPersonasFile == [exists |-> FALSE, doc |-> <<>>]

load_custom_personas(pf) == IF pf.exists THEN JsonLoadDict(pf.doc) ELSE <<>>

save_custom_personas(custom_personas) == [exists |-> TRUE, doc |-> JsonDumpDict(custom_personas)]

add_custom_persona(pf, name, prompt) ==
  save_custom_personas(DictSet(load_custom_personas(pf), name, prompt))

delete_custom_persona(pf, name) ==
  IF DictHas(load_custom_personas(pf), name)
  THEN save_custom_personas(DictDel(load_custom_personas(pf), name))
  ELSE pf

\* all_personas of get_all_personas: the built-ins overlaid by the customs.
get_all_personas(pf) == DictUpdate(PREDEFINED_PERSONAS, load_custom_personas(pf))

\* ------------------------------------------------------------ session state
AbsentName == <<"<absent>">>

\* st.session_state of a browser session that has not run the script yet,
\* with the widget state of the persona selectbox.  Keys the script sets to a
\* default when missing start at that default.
InitSession ==
  [cur |-> NoId,                 \* current_conversation_id (NoId: key missing)
   has_messages |-> FALSE,       \* "messages" in st.session_state
   messages |-> <<>>,
   system_prompt |-> <<>>,
   loaded |-> NoId,              \* loaded_conversation_id
   draft |-> <<>>,               \* custom_prompt_draft
   applied |-> FALSE,            \* custom_prompt_applied
   prev_persona |-> AbsentName,  \* previous_selected_persona
   newly_saved |-> AbsentName,   \* newly_saved_persona
   selected_persona |-> AbsentName]

\* --------------------------------------------------------------- UI events
\* One script run is triggered by one widget: `type` names it, the other
\* fields carry what the user entered.
NoConvPayload == [wrapped |-> FALSE, keys |-> {}, name |-> <<>>, messages |-> <<>>, system_prompt |-> <<>>]
NoPersonaPayload == [has_key |-> FALSE, personas |-> <<>>]

Event(type) ==
  [type |-> type, text |-> <<>>, idx |-> 0, conv_payload |-> NoConvPayload,
   persona_payload |-> NoPersonaPayload, backend |-> "none", outcome |-> "none",
   reply |-> <<>>]

NoEvent == Event("none")

\* ------------------------------------------------------------ one script run
\* The context of a run: the stores, the session, what the run observed
\* (calls, errors), the triggering event, and the script's locals.
StartRun(w, ev) ==
  [files |-> w.files, history |-> w.history, personas |-> w.personas,
   clock |-> w.clock, uuid |-> w.uuid, ss |-> w.ss, calls |-> w.calls,
   errors |-> {}, ev |-> ev, now |-> w.clock + 1, halt |-> "run",
   conversations |-> <<>>, conv |-> DefaultConversation(NoId, 0),
   custom_prompt |-> <<>>, selected |-> AbsentName]

\* save_conversation called by the script: the directory, the clock of the
\* last write and the log of calls.
DoSave(r, c, force_save) ==
  LET s == save_conversation(r.files, c, force_save, r.now)
  IN [r EXCEPT !.files = s.files,
               !.clock = IF s.ret THEN r.now ELSE r.clock,
               !.calls = Append(r.calls,
                  [op |-> "save", id |-> c.id, force |-> force_save,
                   empty |-> is_conversation_empty(c), ret |-> s.ret,
                   unchanged |-> s.files = r.files,
                   exists |-> c.id \in DOMAIN s.files])]

\* lines 346-353
InitConversationId(r) ==
  IF r.ss.cur # NoId THEN r
  ELSE LET m == migrate_old_history(r.files, r.history, r.uuid, r.now)
       IN IF m.ret # NoId
          THEN [r EXCEPT !.files = m.files, !.history = m.history, !.uuid = m.uuid,
                         !.clock = r.now, !.ss.cur = m.ret]
          ELSE [r EXCEPT !.uuid = r.uuid + 1, !.ss.cur = r.uuid + 1]

\* line 359
ListStep(r) == [r EXCEPT !.conversations = list_conversations(r.files)]

\* lines 362-365
NewConversationButton(r) ==
  IF r.ev.type = "new_conversation"
  THEN [r EXCEPT !.uuid = r.uuid + 1, !.ss.cur = r.uuid + 1, !.halt = "rerun",
                 !.calls = Append(r.calls,
                    [op |-> "new_conversation", id |-> r.uuid + 1,
                     listed |-> Len(r.conversations)])]
  ELSE r

IndexOf(seq, x) == CHOOSE i \in DOMAIN seq : seq[i] = x

\* lines 368-413 (the search box left empty)
ConversationSelector(r) ==
  IF r.conversations = <<>> THEN r
  ELSE LET conversation_ids == [i \in DOMAIN r.conversations |-> r.conversations[i].id]
           found == \E i \in DOMAIN conversation_ids : conversation_ids[i] = r.ss.cur
           current_index == IF found THEN IndexOf(conversation_ids, r.ss.cur) ELSE 1
           cur1 == IF found THEN r.ss.cur ELSE conversation_ids[1]
           selected_conv_index ==
             IF r.ev.type = "select_conversation" /\ r.ev.idx \in DOMAIN conversation_ids
             THEN r.ev.idx ELSE current_index
       IN IF conversation_ids[selected_conv_index] # cur1
          THEN [r EXCEPT !.ss.cur = conversation_ids[selected_conv_index], !.halt = "rerun",
                         !.calls = IF r.ev.type = "select_conversation"
                                   THEN Append(r.calls,
                                          [op |-> "select_conversation",
                                           id |-> conversation_ids[selected_conv_index],
                                           doc |-> r.files[conversation_ids[selected_conv_index]]])
                                   ELSE r.calls]
          ELSE [r EXCEPT !.ss.cur = cur1]

\* lines 416-449
ImportConversation(r) ==
  IF r.ev.type # "import_conversation" THEN r
  ELSE LET p == r.ev.conv_payload
           recognised == p.wrapped \/ "messages" \in p.keys
           truthy == recognised /\ p.keys # {}
           new_id == r.uuid + 1
           imported_conversation ==
             [id |-> new_id,
              name |-> IF "name" \in p.keys THEN p.name ELSE ImportedName,
              created_at |-> r.now, updated_at |-> r.now,
              messages |-> IF "messages" \in p.keys THEN p.messages ELSE <<>>,
              system_prompt |-> IF "system_prompt" \in p.keys THEN p.system_prompt ELSE <<>>]
           log == [op |-> "import_conversation", payload |-> p, before |-> r.files,
                   rejected |-> ~recognised, id |-> IF truthy THEN new_id ELSE NoId]
       IN IF ~recognised
          THEN [r EXCEPT !.errors = r.errors \cup {"Invalid conversation format"},
                         !.calls = Append(r.calls, log)]
          ELSE IF ~truthy THEN r
          ELSE LET r2 == DoSave([r EXCEPT !.uuid = new_id, !.calls = Append(r.calls, log)],
                                imported_conversation, TRUE)
               IN [r2 EXCEPT !.ss.cur = new_id, !.halt = "rerun"]

\* line 452: an exception of load_conversation is not caught and ends the run.
LoadCurrent(r) ==
  IF load_conversation_raises(r.files, r.ss.cur)
  THEN [r EXCEPT !.halt = "raised", !.errors = r.errors \cup {"JSONDecodeError"}]
  ELSE [r EXCEPT !.conv = load_conversation(r.files, r.ss.cur, r.now)]

\* lines 456-460
RenameButton(r) ==
  IF r.ev.type = "rename" /\ r.ev.text # r.conv.name
  THEN LET c == [r.conv EXCEPT !.name = r.ev.text]
           r2 == DoSave(r, c, TRUE)
       IN [r2 EXCEPT !.halt = "rerun"]
  ELSE r

DeleteButton_always_offered(r) ==
  IF r.ev.type = "delete_conversation"
  THEN LET fs == Remove(r.files, r.ss.cur)
           remaining_conversations == list_conversations(fs)
           log == Append(r.calls,
                    [op |-> "delete_conversation", id |-> r.ss.cur, before |-> r.files,
                     listed |-> Len(r.conversations)])
       IN IF remaining_conversations # <<>>
          THEN [r EXCEPT !.files = fs, !.ss.cur = remaining_conversations[1].id,
                         !.calls = log, !.halt = "rerun"]
          ELSE [r EXCEPT !.files = fs, !.uuid = r.uuid + 1, !.ss.cur = r.uuid + 1,
                         !.calls = log, !.halt = "rerun"]
  ELSE r

\* lines 463-472
DeleteButton(r) ==
  IF Len(r.conversations) > 1 /\ r.ev.type = "delete_conversation"
  THEN LET fs == delete_conversation(r.files, r.ss.cur)
           remaining_conversations == list_conversations(fs)
           log == Append(r.calls,
                    [op |-> "delete_conversation", id |-> r.ss.cur, before |-> r.files,
                     listed |-> Len(r.conversations)])
       IN IF remaining_conversations # <<>>
          THEN [r EXCEPT !.files = fs, !.ss.cur = remaining_conversations[1].id,
                         !.calls = log, !.halt = "rerun"]
          ELSE [r EXCEPT !.files = fs, !.uuid = r.uuid + 1, !.ss.cur = r.uuid + 1,
                         !.calls = log, !.halt = "rerun"]
  ELSE IF r.ev.type = "delete_conversation"
  THEN [r EXCEPT !.calls = Append(r.calls,
                    [op |-> "delete_not_offered", id |-> r.ss.cur, before |-> r.files,
                     listed |-> Len(r.conversations)])]
  ELSE r

\* lines 492-495
InitFromConversation(r) ==
  IF ~r.ss.has_messages \/ r.ss.loaded # r.ss.cur
  THEN [r EXCEPT !.ss.has_messages = TRUE, !.ss.messages = r.conv.messages,
                 !.ss.system_prompt = r.conv.system_prompt, !.ss.loaded = r.ss.cur]
  ELSE r

InSeq(x, seq) == \E i \in DOMAIN seq : seq[i] = x

\* lines 527-542: the personas as loaded for this run and the selectbox.  The
\* selectbox keeps the user's choice while it is still an option; a persona
\* just saved is preselected through index=default_index.
PersonaSelector(r) ==
  LET persona_names == DictKeys(get_all_personas(r.personas))
      newly == r.ss.newly_saved
      flagged == newly # AbsentName /\ InSeq(newly, persona_names)
      selected_persona ==
        IF r.ev.type = "select_persona" /\ InSeq(r.ev.text, persona_names) THEN r.ev.text
        ELSE IF flagged THEN newly
        ELSE IF InSeq(r.ss.selected_persona, persona_names) THEN r.ss.selected_persona
        ELSE persona_names[1]
  IN [r EXCEPT !.selected = selected_persona,
               !.ss.selected_persona = selected_persona,
               !.ss.newly_saved = IF flagged THEN AbsentName ELSE newly]

\* lines 545-549
ClearDraftOnPersonaChange(r) ==
  IF r.ss.prev_persona = AbsentName
  THEN [r EXCEPT !.ss.prev_persona = r.selected]
  ELSE IF r.ss.prev_persona # r.selected
  THEN [r EXCEPT !.ss.draft = <<>>, !.ss.prev_persona = r.selected]
  ELSE r

\* lines 556-565: the text area shows the draft unless the user edits it.
CustomPromptArea(r) ==
  LET custom_prompt == IF r.ev.type = "type_prompt" THEN r.ev.text ELSE r.ss.draft
  IN [r EXCEPT !.custom_prompt = custom_prompt, !.ss.draft = custom_prompt]

\* lines 568-570
ApplyButton(r) ==
  IF r.ev.type = "apply"
  THEN [r EXCEPT !.ss.system_prompt = r.custom_prompt, !.ss.applied = TRUE,
                 !.calls = Append(r.calls,
                    [op |-> "apply", id |-> r.ss.cur, text |-> r.custom_prompt])]
  ELSE r

\* A persona save attempt as the caller saw it.
LogPersonaSave(r, via, pf, errs) ==
  Append(r.calls,
    [op |-> "persona_save", via |-> via, name |-> r.ev.text,
     stored |-> IF errs = {} THEN Strip(r.ev.text) ELSE AbsentName,
     prompt |-> r.ss.system_prompt,
     before |-> load_custom_personas(r.personas), after |-> load_custom_personas(pf),
     errors |-> errs])

\* A membership test that lets every name through.
IsPredefined_never(new_persona_name) == FALSE

\* lines 606 and 623: new_persona_name in PREDEFINED_PERSONAS (the name as
\* entered, not stripped)
IsPredefined(new_persona_name) == DictHas(PREDEFINED_PERSONAS, new_persona_name)

\* lines 604-620
SaveCurrentButton(r) ==
  IF r.ev.type # "save_current" THEN r
  ELSE LET new_persona_name == r.ev.text
           sp == r.ss.system_prompt
       IN IF Strip(new_persona_name) # <<>> /\ Strip(sp) # <<>>
          THEN IF IsPredefined(new_persona_name)
               THEN LET e == {"Cannot overwrite predefined personas!"}
                    IN [r EXCEPT !.errors = r.errors \cup e,
                                 !.calls = LogPersonaSave(r, "save_current", r.personas, e)]
               ELSE LET pf == add_custom_persona(r.personas, Strip(new_persona_name), sp)
                    IN [r EXCEPT !.personas = pf,
                                 !.ss.newly_saved = Strip(new_persona_name),
                                 !.calls = LogPersonaSave(r, "save_current", pf, {}),
                                 !.halt = "rerun"]
          ELSE LET e == IF Strip(new_persona_name) = <<>>
                        THEN {"Please enter a persona name!"}
                        ELSE {"No system prompt to save!"}
               IN [r EXCEPT !.errors = r.errors \cup e,
                            !.calls = LogPersonaSave(r, "save_current", r.personas, e)]

\* line 623: whether the Quick Save button is rendered
QuickSaveShown(new_persona_name, sp) ==
  /\ Strip(new_persona_name) # <<>>
  /\ Strip(sp) # <<>>
  /\ ~IsPredefined(new_persona_name)

\* lines 623-632: a button that is not rendered cannot save anything.
QuickSaveButton(r) ==
  IF r.ev.type # "quick_save" THEN r
  ELSE IF QuickSaveShown(r.ev.text, r.ss.system_prompt)
  THEN LET pf == add_custom_persona(r.personas, Strip(r.ev.text), r.ss.system_prompt)
       IN [r EXCEPT !.personas = pf,
                    !.ss.newly_saved = Strip(r.ev.text),
                    !.calls = LogPersonaSave(r, "quick_save", pf, {}),
                    !.halt = "rerun"]
  ELSE [r EXCEPT !.calls = LogPersonaSave(r, "quick_save", r.personas, {"Quick Save not offered"})]

LogPersonaDelete(r, name, pf, errs) ==
  Append(r.calls,
    [op |-> "persona_delete", name |-> name,
     before |-> load_custom_personas(r.personas), after |-> load_custom_personas(pf),
     errors |-> errs])

\* lines 635-641
DeletePersonaButton(r) ==
  IF r.ev.type # "delete_persona" THEN r
  ELSE IF DictHas(load_custom_personas(r.personas), r.selected)
  THEN LET pf == delete_custom_persona(r.personas, r.selected)
       IN [r EXCEPT !.personas = pf,
                    !.calls = LogPersonaDelete(r, r.selected, pf, {}),
                    !.halt = "rerun"]
  ELSE LET e == {"Cannot delete predefined personas!"}
       IN [r EXCEPT !.errors = r.errors \cup e,
                    !.calls = LogPersonaDelete(r, r.selected, r.personas, e)]

\* lines 659-664
TemplateButton(r) ==
  IF r.ev.type = "use_template" /\ DictHas(templates, r.ev.text)
  THEN LET template_prompt == DictGet(templates, r.ev.text)
           c == [r.conv EXCEPT !.system_prompt = template_prompt]
           r2 == DoSave([r EXCEPT !.conv = c], c, FALSE)
       IN [r2 EXCEPT !.ss.system_prompt = template_prompt, !.halt = "rerun"]
  ELSE r

\* lines 667-711: rendered only while there are custom personas
ManageCustomPersonas(r) ==
  LET custom_personas == load_custom_personas(r.personas)
  IN IF custom_personas = <<>> THEN r
     ELSE IF r.ev.type = "manage_delete" /\ DictHas(custom_personas, r.ev.text)
     THEN LET pf == delete_custom_persona(r.personas, r.ev.text)
          IN [r EXCEPT !.personas = pf,
                       !.calls = LogPersonaDelete(r, r.ev.text, pf, {}),
                       !.halt = "rerun"]
     ELSE IF r.ev.type = "import_personas"
     THEN IF r.ev.persona_payload.has_key
          THEN LET current_custom ==
                     DictUpdate(load_custom_personas(r.personas), r.ev.persona_payload.personas)
               IN [r EXCEPT !.personas = save_custom_personas(current_custom),
                            !.halt = "rerun"]
          ELSE [r EXCEPT !.errors = r.errors \cup {"Invalid personas file format"}]
     ELSE r

\* lines 713-727
UpdateSystemPrompt(r) ==
  LET old_system_prompt == r.ss.system_prompt
      all_personas == get_all_personas(r.personas)
      sp == IF r.ss.applied THEN old_system_prompt
            ELSE IF Strip(r.ss.draft) = <<>> THEN DictGet(all_personas, r.selected)
            ELSE old_system_prompt
      r1 == [r EXCEPT !.ss.applied = FALSE, !.ss.system_prompt = sp]
  IN IF sp # old_system_prompt
     THEN LET c == [r.conv EXCEPT !.system_prompt = sp]
          IN DoSave([r1 EXCEPT !.conv = c], c, FALSE)
     ELSE r1

\* lines 735-740
ResetPersonaButton(r) ==
  IF r.ev.type = "reset_persona"
  THEN LET c == [r.conv EXCEPT !.system_prompt = <<>>]
           r2 == DoSave([r EXCEPT !.conv = c], c, TRUE)
       IN [r2 EXCEPT !.ss.system_prompt = <<>>, !.ss.draft = <<>>, !.halt = "rerun"]
  ELSE r

\* lines 788-796: the prompt sent to the generation server
RECURSIVE HistoryLines(_)
HistoryLines(messages) ==
  IF messages = <<>> THEN <<>>
  ELSE (IF Head(messages).role = "user" THEN <<"User:", " ">> ELSE <<"Assistant:", " ">>)
       \o Head(messages).content \o <<"\n">> \o HistoryLines(Tail(messages))

\* A prompt that always opens with the "System:" preamble.
AssemblePrompt_always_preamble(system_prompt, messages) ==
  <<"System:", " ">> \o system_prompt \o <<"\n", "\n">> \o HistoryLines(messages)

AssemblePrompt(system_prompt, messages) ==
  (IF system_prompt # <<>> THEN <<"System:", " ">> \o system_prompt \o <<"\n", "\n">> ELSE <<>>)
  \o HistoryLines(messages)

NotConfigured(vendor) ==
  <<"[", vendor, " ", "integration", " ", "not", " ", "configured.", " ", "Add", " ", "your",
    " ", "API", " ", "key", " ", "and", " ", "code", " ", "to", " ", "enable.]">>

BackendReply_unwrapped(ev) == ev.reply

\* lines 786-820: the assistant's reply for the selected model type.  `outcome`
\* is what the backend did: "ok" (reply text in ev.reply), "no_response" (a
\* JSON body without "response"), "error" (requests raised; ev.reply is the
\* exception text), "raise" (hf_infer raised).
BackendReply(ev) ==
  CASE ev.backend = "ollama" ->
         (CASE ev.outcome = "ok" -> ev.reply
            [] ev.outcome = "no_response" -> <<"[No response]">>
            [] OTHER -> <<"[Error:", " ">> \o ev.reply \o <<"]">>)
    [] ev.backend = "bert" -> ev.reply
    [] ev.backend = "hf_hub" -> ev.reply
    [] ev.backend = "openai" -> NotConfigured("OpenAI")
    [] OTHER -> NotConfigured("Anthropic")

SendMessage_onto_document(r) ==
  IF r.ev.type # "send" THEN r
  ELSE LET user_input == r.ev.text
           with_user == Append(r.ss.messages, [role |-> "user", content |-> user_input])
           calls0 == Append(r.calls,
                       [op |-> "send", id |-> r.ss.cur, before |-> r.ss.messages,
                        text |-> user_input, backend |-> r.ev.backend,
                        outcome |-> r.ev.outcome])
       IN IF r.ev.backend = "hf_hub" /\ r.ev.outcome = "raise"
          THEN [r EXCEPT !.ss.messages = with_user, !.calls = calls0, !.halt = "raised",
                         !.errors = r.errors \cup {"exception in hf_infer"}]
          ELSE LET reply == [role |-> "assistant", content |-> BackendReply(r.ev)]
                   c == [r.conv EXCEPT
                           !.messages = r.conv.messages
                                          \o <<[role |-> "user", content |-> user_input], reply>>,
                           !.system_prompt = r.ss.system_prompt]
                   r2 == DoSave([r EXCEPT !.ss.messages = Append(with_user, reply),
                                          !.calls = calls0, !.conv = c], c, FALSE)
               IN [r2 EXCEPT !.halt = "rerun"]

\* lines 782-826
SendMessage(r) ==
  IF r.ev.type # "send" THEN r
  ELSE LET user_input == r.ev.text
           with_user == Append(r.ss.messages, [role |-> "user", content |-> user_input])
           prompt == AssemblePrompt(r.ss.system_prompt, with_user)
           calls0 == Append(r.calls,
                       [op |-> "send", id |-> r.ss.cur, before |-> r.ss.messages,
                        text |-> user_input, backend |-> r.ev.backend,
                        outcome |-> r.ev.outcome])
           calls1 == IF r.ev.backend = "ollama"
                     THEN Append(calls0,
                            [op |-> "generate", prompt |-> prompt,
                             system_prompt |-> r.ss.system_prompt,
                             history |-> r.ss.messages, user_input |-> user_input])
                     ELSE calls0
       IN IF r.ev.backend = "hf_hub" /\ r.ev.outcome = "raise"
          THEN [r EXCEPT !.ss.messages = with_user, !.calls = calls0, !.halt = "raised",
                         !.errors = r.errors \cup {"exception in hf_infer"}]
          ELSE LET messages == Append(with_user,
                                 [role |-> "assistant", content |-> BackendReply(r.ev)])
                   c == [r.conv EXCEPT !.messages = messages,
                                       !.system_prompt = r.ss.system_prompt]
                   r2 == DoSave([r EXCEPT !.ss.messages = messages, !.calls = calls1,
                                          !.conv = c], c, FALSE)
               IN [r2 EXCEPT !.halt = "rerun"]

\* lines 828-837
ClearButton(r) ==
  IF r.ev.type # "clear" THEN r
  ELSE LET c == [r.conv EXCEPT !.messages = <<>>]
           res == clear_conversation_if_empty(r.files, c, r.now)
           r2 == [r EXCEPT !.ss.messages = <<>>, !.conv = c, !.files = res.files,
                           !.clock = IF res.ret THEN r.clock ELSE r.now,
                           !.calls = Append(r.calls,
                              [op |-> "clear", id |-> c.id,
                               empty |-> is_conversation_empty(c), ret |-> res.ret,
                               exists |-> c.id \in DOMAIN res.files]),
                           !.halt = "rerun"]
       IN IF res.ret
          THEN [r2 EXCEPT !.uuid = r.uuid + 1, !.ss.cur = r.uuid + 1]
          ELSE r2

\* One execution of the script, top to bottom, for one event.  A step runs
\* only while the run has neither asked for a rerun (st.rerun() stops the
\* script) nor raised; the steps are listed last to first.
RunScript(w, ev) ==
  CHOOSE out \in
    {IF r22.halt = "run" THEN ClearButton(r22) ELSE r22 : r22 \in
    {IF r21.halt = "run" THEN SendMessage(r21) ELSE r21 : r21 \in
    {IF r20.halt = "run" THEN ResetPersonaButton(r20) ELSE r20 : r20 \in
    {IF r19.halt = "run" THEN UpdateSystemPrompt(r19) ELSE r19 : r19 \in
    {IF r18.halt = "run" THEN ManageCustomPersonas(r18) ELSE r18 : r18 \in
    {IF r17.halt = "run" THEN TemplateButton(r17) ELSE r17 : r17 \in
    {IF r16.halt = "run" THEN DeletePersonaButton(r16) ELSE r16 : r16 \in
    {IF r15.halt = "run" THEN QuickSaveButton(r15) ELSE r15 : r15 \in
    {IF r14.halt = "run" THEN SaveCurrentButton(r14) ELSE r14 : r14 \in
    {IF r13.halt = "run" THEN ApplyButton(r13) ELSE r13 : r13 \in
    {IF r12.halt = "run" THEN CustomPromptArea(r12) ELSE r12 : r12 \in
    {IF r11.halt = "run" THEN ClearDraftOnPersonaChange(r11) ELSE r11 : r11 \in
    {IF r10.halt = "run" THEN PersonaSelector(r10) ELSE r10 : r10 \in
    {IF r09.halt = "run" THEN InitFromConversation(r09) ELSE r09 : r09 \in
    {IF r08.halt = "run" THEN DeleteButton(r08) ELSE r08 : r08 \in
    {IF r07.halt = "run" THEN RenameButton(r07) ELSE r07 : r07 \in
    {IF r06.halt = "run" THEN LoadCurrent(r06) ELSE r06 : r06 \in
    {IF r05.halt = "run" THEN ImportConversation(r05) ELSE r05 : r05 \in
    {IF r04.halt = "run" THEN ConversationSelector(r04) ELSE r04 : r04 \in
    {IF r03.halt = "run" THEN NewConversationButton(r03) ELSE r03 : r03 \in
    {IF r02.halt = "run" THEN ListStep(r02) ELSE r02 : r02 \in
    {IF r01.halt = "run" THEN InitConversationId(r01) ELSE r01 : r01 \in
    {StartRun(w, ev)}}}}}}}}}}}}}}}}}}}}}}} : TRUE

World(r) ==
  [files |-> r.files, history |-> r.history, personas |-> r.personas,
   clock |-> r.clock, uuid |-> r.uuid, ss |-> r.ss, calls |-> r.calls,
   errors |-> r.errors]

\* The whole handling of one event: the run it triggers and, when that run
\* calls st.rerun(), the run that follows with no widget triggered.
HandleEvent(w, ev) ==
  CHOOSE out \in
    {IF first.halt = "rerun"
     THEN CHOOSE w2 \in {World(second) : second \in {RunScript(World(first), NoEvent)}} : TRUE
     ELSE World(first) : first \in {RunScript([w EXCEPT !.calls = <<>>], ev)}} : TRUE

\* ------------------------------------------------------------------- state
VARIABLES
  files,     \* the conversations directory: id -> written document
  history,   \* the legacy history file
  personas,  \* the custom personas file
  clock,     \* the time of the last write (datetime.now() is later)
  uuid,      \* how many uuid4 values have been drawn
  ss,        \* st.session_state of the browser session
  ss2,       \* st.session_state of a second browser session on the same files
  calls,     \* what the last handled event called and what came back
  errors     \* the error boxes the page shows after the last run

vars == <<files, history, personas, clock, uuid, ss, ss2, calls, errors>>

Here ==
  [files |-> files, history |-> history, personas |-> personas, clock |-> clock,
   uuid |-> uuid, ss |-> ss, calls |-> calls, errors |-> errors]

Becomes(w) ==
  /\ files' = w.files
  /\ history' = w.history
  /\ personas' = w.personas
  /\ clock' = w.clock
  /\ uuid' = w.uuid
  /\ ss' = w.ss
  /\ ss2' = ss2
  /\ calls' = w.calls
  /\ errors' = w.errors

\* ------------------------------------------------------------------ inputs
Msg(role, content) == [role |-> role, content |-> content]

Quoted == <<"Be", " ", "\"", "brief", "\"">>

PromptInputs == {<<>>, <<" ">>, Quoted}
NameInputs == {<<"Trip">>}
UserInputs == {<<"hi">>}
ReplyInputs == {<<"ok">>}
PersonaNameInputs == {<<>>, <<" ">>, <<"Foo">>, <<"Default">>, <<" ", "Default">>}
PersonaChoices == {<<"Default">>, <<"Helpful Assistant">>, <<"Foo">>}
TemplateChoices == {<<"Debug Helper">>}
Backends == {"ollama", "bert", "hf_hub", "openai", "anthropic"}

Outcomes(backend) ==
  CASE backend = "ollama" -> {"ok", "no_response", "error"}
    [] backend = "hf_hub" -> {"ok", "raise"}
    [] OTHER -> {"ok"}

ConvPayloads ==
  { [wrapped |-> TRUE, keys |-> {"name", "messages", "system_prompt"}, name |-> <<"Old">>,
     messages |-> <<Msg("user", <<"x">>)>>, system_prompt |-> Quoted],
    [wrapped |-> FALSE, keys |-> {"messages"}, name |-> <<>>,
     messages |-> <<Msg("user", <<"x">>)>>, system_prompt |-> <<>>],
    [wrapped |-> FALSE, keys |-> {"messages"}, name |-> <<>>,
     messages |-> <<>>, system_prompt |-> <<>>],
    [wrapped |-> TRUE, keys |-> {}, name |-> <<>>, messages |-> <<>>, system_prompt |-> <<>>],
    [wrapped |-> FALSE, keys |-> {"name"}, name |-> <<"Old">>, messages |-> <<>>,
     system_prompt |-> <<>>] }

PersonaPayloads ==
  { [has_key |-> FALSE, personas |-> <<>>],
    [has_key |-> TRUE, personas |-> <<[k |-> <<"Default">>, v |-> <<"x">>]>>],
    [has_key |-> TRUE, personas |-> <<[k |-> <<"Bar">>, v |-> <<"y">>]>>] }

LegacyHistories ==
  { NoHistory,
    JsonDumpHistory(EmptyHistory),
    JsonDumpHistory([messages |-> <<Msg("user", <<"old">>)>>, system_prompt |-> Quoted]),
    JsonDumpList(<<Msg("user", <<"old">>), Msg("assistant", <<"reply">>)>>) }

\* -------------------------------------------------------------------- Init
Init ==
  /\ files = NoFiles
  /\ history \in LegacyHistories
  /\ personas = NoPersonasFile
  /\ clock = 0
  /\ uuid = 0
  /\ ss = InitSession
  /\ ss2 = InitSession
  /\ calls = <<>>
  /\ errors = {}

\* ----------------------------------------------------------------- actions
\* Room for the ids and the timestamps one handled event can draw.
Room == uuid < MaxIds /\ clock + 2 <= MaxClock

Started == ss.cur # NoId

\* The browser opens the page: the first run of the script.
OpenSession ==
  /\ ~Started /\ Room
  /\ \E after \in {HandleEvent(Here, NoEvent)} : Becomes(after)

NewConversation ==
  /\ Started /\ Room
  /\ \E after \in {HandleEvent(Here, Event("new_conversation"))} : Becomes(after)

SelectConversation ==
  /\ Started /\ Room
  /\ \E i \in 1..Cardinality(DOMAIN files) :
       \E after \in {HandleEvent(Here, [Event("select_conversation") EXCEPT !.idx = i])} : Becomes(after)

ImportConversationFile ==
  /\ Started /\ Room
  /\ \E p \in ConvPayloads :
       \E after \in {HandleEvent(Here, [Event("import_conversation") EXCEPT !.conv_payload = p])} : Becomes(after)

Rename ==
  /\ Started /\ Room
  /\ \E n \in NameInputs : \E after \in {HandleEvent(Here, [Event("rename") EXCEPT !.text = n])} : Becomes(after)

DeleteThisConversation ==
  /\ Started /\ Room
  /\ \E after \in {HandleEvent(Here, Event("delete_conversation"))} : Becomes(after)

TypePrompt ==
  /\ Started /\ Room
  /\ \E t \in PromptInputs : \E after \in {HandleEvent(Here, [Event("type_prompt") EXCEPT !.text = t])} : Becomes(after)

ApplySystemPrompt ==
  /\ Started /\ Room
  /\ \E after \in {HandleEvent(Here, Event("apply"))} : Becomes(after)

SelectPersona ==
  /\ Started /\ Room
  /\ \E n \in PersonaChoices :
       /\ InSeq(n, DictKeys(get_all_personas(personas)))
       /\ \E after \in {HandleEvent(Here, [Event("select_persona") EXCEPT !.text = n])} : Becomes(after)

SaveCurrent ==
  /\ Started /\ Room
  /\ Len(load_custom_personas(personas)) < MaxCustom
  /\ \E n \in PersonaNameInputs :
       \E after \in {HandleEvent(Here, [Event("save_current") EXCEPT !.text = n])} : Becomes(after)

QuickSave ==
  /\ Started /\ Room
  /\ Len(load_custom_personas(personas)) < MaxCustom
  /\ \E n \in PersonaNameInputs :
       \E after \in {HandleEvent(Here, [Event("quick_save") EXCEPT !.text = n])} : Becomes(after)

DeletePersona ==
  /\ Started /\ Room
  /\ \E after \in {HandleEvent(Here, Event("delete_persona"))} : Becomes(after)

UseTemplate ==
  /\ Started /\ Room
  /\ \E t \in TemplateChoices :
       \E after \in {HandleEvent(Here, [Event("use_template") EXCEPT !.text = t])} : Becomes(after)

ManageDelete ==
  /\ Started /\ Room
  /\ \E i \in DOMAIN load_custom_personas(personas) :
       \E after \in {HandleEvent(Here,
         [Event("manage_delete") EXCEPT !.text = load_custom_personas(personas)[i].k])} : Becomes(after)

ImportPersonas ==
  /\ Started /\ Room
  /\ load_custom_personas(personas) # <<>>
  /\ Len(load_custom_personas(personas)) < MaxCustom
  /\ \E p \in PersonaPayloads :
       \E after \in {HandleEvent(Here, [Event("import_personas") EXCEPT !.persona_payload = p])} : Becomes(after)

ResetPersona ==
  /\ Started /\ Room
  /\ \E after \in {HandleEvent(Here, Event("reset_persona"))} : Becomes(after)

Send ==
  /\ Started /\ Room
  /\ Len(ss.messages) + 2 <= MaxMsgs
  /\ \E t \in UserInputs, b \in Backends, reply \in ReplyInputs :
       \E o \in Outcomes(b) :
         \E after \in {HandleEvent(Here,
           [Event("send") EXCEPT !.text = t, !.backend = b, !.outcome = o, !.reply = reply])} : Becomes(after)

ClearConversation ==
  /\ Started /\ Room
  /\ \E after \in {HandleEvent(Here, Event("clear"))} : Becomes(after)

Next ==
  \/ OpenSession
  \/ NewConversation
  \/ SelectConversation
  \/ ImportConversationFile
  \/ Rename
  \/ DeleteThisConversation
  \/ TypePrompt
  \/ ApplySystemPrompt
  \/ SelectPersona
  \/ UseTemplate
  \/ ResetPersona
  \/ Send
  \/ ClearConversation

\* A session working on its conversations, with the built-in personas only.
Spec == Init /\ [][Next]_vars

NextPersonas ==
  \/ OpenSession
  \/ TypePrompt
  \/ ApplySystemPrompt
  \/ SelectPersona
  \/ SaveCurrent
  \/ QuickSave
  \/ DeletePersona
  \/ ManageDelete
  \/ ImportPersonas

\* A session working on its personas.
SpecPersonas == Init /\ [][NextPersonas]_vars

\* ------------------------------------------- the store's functions, called
\* directly on conversations drawn from a bounded set
MaxStoreIds == 1
MaxStoreClock == 2

StoreNames == {NewConversationName, <<"a", "\\", "b">>}
StoreMessages ==
  { <<>>,
    <<Msg("user", <<"hi">>)>>,
    <<Msg("user", Quoted), Msg("assistant", <<"line", "\n", "two">>)>> }
StorePrompts == {<<>>, <<" ", "\n">>, Quoted}

StoreConversations ==
  [id : 1..MaxStoreIds, name : StoreNames, created_at : {0}, updated_at : {0, clock},
   messages : StoreMessages, system_prompt : StorePrompts]

InitStore ==
  /\ files = NoFiles
  /\ history = NoHistory
  /\ personas = NoPersonasFile
  /\ clock = 0
  /\ uuid = 0
  /\ ss = InitSession
  /\ ss2 = InitSession
  /\ calls = <<>>
  /\ errors = {}

CallSave ==
  /\ clock < MaxStoreClock
  /\ \E c \in StoreConversations, force_save \in BOOLEAN :
       LET s == save_conversation(files, c, force_save, clock + 1)
       IN /\ files' = s.files
          /\ clock' = IF s.ret THEN clock + 1 ELSE clock
          /\ calls' = <<[op |-> "save_conversation", conv |-> c, force |-> force_save,
                         ret |-> s.ret, existed |-> c.id \in DOMAIN files,
                         unchanged |-> s.files = files]>>
  /\ UNCHANGED <<history, personas, uuid, ss, ss2, errors>>

CallLoad ==
  /\ \E id \in 1..MaxStoreIds :
       calls' = <<[op |-> "load_conversation", id |-> id,
                   result |-> load_conversation(files, id, clock + 1)]>>
  /\ UNCHANGED <<files, history, personas, clock, uuid, ss, ss2, errors>>

CallClearIfEmpty ==
  /\ clock < MaxStoreClock
  /\ \E c \in StoreConversations :
       LET s == clear_conversation_if_empty(files, c, clock + 1)
       IN /\ files' = s.files
          /\ clock' = IF s.ret THEN clock ELSE clock + 1
          /\ calls' = <<[op |-> "clear_conversation_if_empty", conv |-> c, ret |-> s.ret,
                         existed |-> c.id \in DOMAIN files]>>
  /\ UNCHANGED <<history, personas, uuid, ss, ss2, errors>>

CallDelete ==
  /\ \E id \in 1..MaxStoreIds :
       /\ files' = delete_conversation(files, id)
       /\ calls' = <<[op |-> "delete_conversation", id |-> id]>>
  /\ UNCHANGED <<history, personas, clock, uuid, ss, ss2, errors>>

NextStore == CallSave \/ CallLoad \/ CallClearIfEmpty \/ CallDelete

SpecStore == InitStore /\ [][NextStore]_vars

\* ------------------------------------ two browser sessions on one directory
MaxSessionClock == 8

\* Streamlit keeps one st.session_state per browser session; the files are
\* shared.  `who` is the session whose script runs.
SessionState(who) == IF who = 1 THEN ss ELSE ss2

BecomesIn(who, w) ==
  /\ files' = w.files
  /\ history' = w.history
  /\ personas' = w.personas
  /\ clock' = w.clock
  /\ uuid' = w.uuid
  /\ ss' = IF who = 1 THEN w.ss ELSE ss
  /\ ss2' = IF who = 2 THEN w.ss ELSE ss2
  /\ calls' = Append(w.calls, [op |-> "session", who |-> who])
  /\ errors' = w.errors

SessionOpen ==
  \E who \in {1, 2} :
    /\ SessionState(who).cur = NoId
    /\ clock + 2 <= MaxSessionClock
    /\ \E after \in {HandleEvent([Here EXCEPT !.ss = SessionState(who)], NoEvent)} :
         BecomesIn(who, after)

SessionSend ==
  \E who \in {1, 2} :
    /\ SessionState(who).cur # NoId
    /\ clock + 2 <= MaxSessionClock
    /\ Len(SessionState(who).messages) + 2 <= MaxMsgs
    /\ \E t \in UserInputs, b \in Backends, reply \in ReplyInputs :
         \E o \in Outcomes(b) :
           \E after \in {HandleEvent([Here EXCEPT !.ss = SessionState(who)],
             [Event("send") EXCEPT !.text = t, !.backend = b, !.outcome = o, !.reply = reply])} :
               BecomesIn(who, after)

NextSessions == SessionOpen \/ SessionSend

\* --------------------------- the directory functions, with damaged documents
MaxListIds == 3
MaxListClock == 3

\* Where a write was interrupted: the file holds the first n members only
\* (none: an empty file).
CutPoints == {0, 4}

ListedConversations ==
  { [id |-> id, name |-> <<"Trip">>, created_at |-> 0, updated_at |-> 0,
     messages |-> IF id % 2 = 1
                  THEN <<Msg("user", <<"hi">>)>>
                  ELSE <<Msg("user", Quoted), Msg("assistant", <<"ok">>)>>,
     system_prompt |-> <<>>] :
      id \in 1..MaxListIds }

InitDirectory ==
  /\ files = NoFiles
  /\ history = NoHistory
  /\ personas = NoPersonasFile
  /\ clock = 0
  /\ uuid = 0
  /\ ss = InitSession
  /\ ss2 = InitSession
  /\ calls = <<>>
  /\ errors = {}

\* save_conversation(c) at a time later than every earlier write.
SaveListed ==
  /\ clock < MaxListClock
  /\ \E c \in ListedConversations :
       /\ files' = save_conversation(files, c, FALSE, clock + 1).files
       /\ clock' = clock + 1
  /\ UNCHANGED <<history, personas, uuid, ss, ss2, calls, errors>>

\* A document is damaged outside the program: its file is cut short.
DamageDocument ==
  /\ \E id \in DOMAIN files, n \in CutPoints :
       /\ Parses(files[id])
       /\ files' = Put(files, id, SubSeq(files[id], 1, n))
  /\ UNCHANGED <<history, personas, clock, uuid, ss, ss2, calls, errors>>

\* list_conversations(); the log keeps the directory it read.
CallList ==
  /\ calls' = <<[op |-> "list_conversations", dir |-> files,
                 result |-> list_conversations(files)]>>
  /\ UNCHANGED <<files, history, personas, clock, uuid, ss, ss2, errors>>

\* load_conversation(id) of one document; the log keeps whether it raised.
CallLoadListed ==
  /\ \E id \in 1..MaxListIds :
       calls' = <<[op |-> "load_listed", id |-> id, dir |-> files,
                   raised |-> load_conversation_raises(files, id),
                   result |-> IF load_conversation_raises(files, id)
                              THEN DefaultConversation(NoId, 0)
                              ELSE load_conversation(files, id, clock + 1)]>>
  /\ UNCHANGED <<files, history, personas, clock, uuid, ss, ss2, errors>>

NextDirectory == SaveListed \/ DamageDocument \/ CallList \/ CallLoadListed

SpecDirectory == InitDirectory /\ [][NextDirectory]_vars

\* --------------------------------- a session opened on an existing directory
\* The conversations directory as earlier sessions left it: two conversations
\* with messages, the older one with a system prompt.  Their ids are uuid4
\* values drawn before, distinct from every id drawn from now on, and their
\* timestamps lie before the first write of this behaviour.
EarlierIds == <<MaxIds + 1, MaxIds + 2>>

EarlierConversations ==
  << [id |-> EarlierIds[1], name |-> <<"Trip">>, created_at |-> 0 - 2, updated_at |-> 0 - 1,
      messages |-> <<Msg("user", <<"old">>), Msg("assistant", <<"reply">>)>>,
      system_prompt |-> Quoted],
     [id |-> EarlierIds[2], name |-> <<"Old">>, created_at |-> 0, updated_at |-> 0,
      messages |-> <<Msg("user", <<"x">>)>>, system_prompt |-> <<>>] >>

EarlierFiles ==
  [id \in {EarlierIds[1], EarlierIds[2]} |->
     JsonDumpConversation(EarlierConversations[IndexOf(EarlierIds, id)])]

InitReturning ==
  /\ files = EarlierFiles
  /\ history \in {NoHistory, JsonDumpHistory(EmptyHistory)}
  /\ personas = NoPersonasFile
  /\ clock = 0
  /\ uuid = 0
  /\ ss = InitSession
  /\ ss2 = InitSession
  /\ calls = <<>>
  /\ errors = {}

\* The events that move between conversations, and the two that change what
\* the active one holds.
NextReturning ==
  \/ OpenSession
  \/ NewConversation
  \/ SelectConversation
  \/ DeleteThisConversation
  \/ ClearConversation
  \/ SelectPersona
  \/ Send

SpecReturning == InitReturning /\ [][NextReturning]_vars

\* Two sessions opened on that directory.
SpecSessions == InitReturning /\ [][NextSessions]_vars

\* ------------------------------------------- the legacy migration, run
\* repeatedly against one legacy history document
MaxRuns == 3

LegacyMessages ==
  { <<>>,
    <<Msg("assistant", <<"hello">>)>>,
    <<Msg("user", <<"old">>)>>,
    <<Msg("user", Quoted), Msg("assistant", <<"reply">>)>>,
    <<Msg("assistant", <<"a", "\\", "b">>), Msg("user", <<"line", "\n", "two">>)>> }
LegacyPrompts == {<<>>, <<" ">>, Quoted, <<"Be", "\t", "kind">>, <<"Be brief.">>}

AllLegacyHistories ==
  {NoHistory}
  \cup {JsonDumpList(ms) : ms \in LegacyMessages}
  \cup {JsonDumpHistory([messages |-> ms, system_prompt |-> p]) :
          ms \in LegacyMessages, p \in LegacyPrompts}

InitMigrate ==
  /\ files = NoFiles
  /\ history \in AllLegacyHistories
  /\ personas = NoPersonasFile
  /\ clock = 0
  /\ uuid = 0
  /\ ss = InitSession
  /\ ss2 = InitSession
  /\ calls = <<>>
  /\ errors = {}

\* One call of migrate_old_history(); the log keeps what each call read and
\* returned.
RunMigration ==
  /\ Len(calls) < MaxRuns
  /\ LET m == migrate_old_history(files, history, uuid, clock + 1)
     IN /\ files' = m.files
        /\ history' = m.history
        /\ uuid' = m.uuid
        /\ clock' = IF m.ret # NoId THEN clock + 1 ELSE clock
        /\ calls' = Append(calls, [op |-> "migrate_old_history", ret |-> m.ret,
                                   read |-> load_history(history),
                                   existed |-> history.exists])
  /\ UNCHANGED <<personas, ss, ss2, errors>>

NextMigrate == RunMigration

SpecMigrate == InitMigrate /\ [][NextMigrate]_vars

\* ================================================================== claims
\* A text that is empty or holds whitespace only.
IsBlankText(t) == \A i \in DOMAIN t : t[i] \in Whitespace

\* The document stored for id, as read back.
Stored(id) == JsonLoadConversation(files[id])

\* C1: in every reachable state no document of the conversations directory
\* is empty, i.e. has zero messages together with a blank system prompt.
C1_NoEmptyDocumentPersists ==
  \A id \in DOMAIN files :
    ~(Len(Stored(id).messages) = 0 /\ IsBlankText(Stored(id).system_prompt))

\* C2 (as stated): after save_conversation(C, force_save=False) on a C with
\* zero messages and a blank system prompt there is no document for C.id on
\* disk, the call returned False and wrote nothing.
C2_EmptySaveLeavesNoDocument ==
  \A i \in DOMAIN calls :
    (calls[i].op = "save" /\ ~calls[i].force /\ calls[i].empty)
      => (~calls[i].exists /\ ~calls[i].ret /\ calls[i].unchanged)

\* C2 (amended): save_conversation(C, force_save=False) on a C with zero
\* messages and a blank system prompt returns False and leaves the directory
\* exactly as it was, so a document for C.id is on disk afterwards only if it
\* was there before the call.
C2_EmptySaveWritesNothing ==
  \A i \in DOMAIN calls :
    (calls[i].op = "save" /\ ~calls[i].force /\ calls[i].empty)
      => (~calls[i].ret /\ calls[i].unchanged)

C2_Witness ==
  \E i \in DOMAIN calls :
    calls[i].op = "save" /\ ~calls[i].force /\ calls[i].empty /\ ~calls[i].exists

\* C3: for every conversation C with at least one message,
\* save_conversation(C, force_save=False) followed by load_conversation(C.id)
\* returns C's id, name, created_at, messages and system_prompt, with
\* updated_at advanced to the save time.
C3_SaveThenLoadReturnsConversation ==
  \A i \in DOMAIN calls :
    (calls[i].op = "save_conversation" /\ ~calls[i].force
       /\ Len(calls[i].conv.messages) >= 1)
      => LET c == calls[i].conv
             d == load_conversation(files, c.id, clock + 1)
         IN /\ calls[i].ret
            /\ d.id = c.id
            /\ d.name = c.name
            /\ d.created_at = c.created_at
            /\ d.messages = c.messages
            /\ d.system_prompt = c.system_prompt
            /\ d.updated_at = clock
            /\ d.updated_at > c.updated_at

C3_Witness ==
  \E i \in DOMAIN calls :
    /\ calls[i].op = "save_conversation" /\ ~calls[i].force /\ calls[i].ret
    /\ Len(calls[i].conv.messages) = 2
    /\ calls[i].conv.system_prompt = Quoted
    /\ calls[i].existed

\* C4: clear_conversation_if_empty on a conversation with zero messages and a
\* blank system prompt removes its document (if any) and returns True; a load
\* of that id afterwards returns a fresh default conversation with that id.
C4_ClearEmptyRemovesDocument ==
  \A i \in DOMAIN calls :
    (calls[i].op = "clear_conversation_if_empty"
       /\ Len(calls[i].conv.messages) = 0 /\ IsBlankText(calls[i].conv.system_prompt))
      => LET d == load_conversation(files, calls[i].conv.id, clock + 1)
         IN /\ calls[i].ret
            /\ calls[i].conv.id \notin DOMAIN files
            /\ d.id = calls[i].conv.id
            /\ d.name = <<"New Conversation">>
            /\ d.messages = <<>>
            /\ d.system_prompt = <<>>

C4_Witness ==
  \E i \in DOMAIN calls :
    /\ calls[i].op = "clear_conversation_if_empty" /\ calls[i].ret /\ calls[i].existed
    /\ calls[i].conv.system_prompt # <<>>

BuiltinNames == {PREDEFINED_PERSONAS[i].k : i \in DOMAIN PREDEFINED_PERSONAS}

\* C5: a persona save (Save Current or Quick Save) entered under a built-in
\* persona name is rejected (Save Current shows an error, Quick Save is not
\* offered) and leaves the persisted custom mapping as it was.
C5_BuiltinNameSaveRejected ==
  \A i \in DOMAIN calls :
    (calls[i].op = "persona_save" /\ calls[i].name \in BuiltinNames)
      => /\ calls[i].stored = AbsentName
         /\ calls[i].after = calls[i].before
         /\ load_custom_personas(personas) = calls[i].before
         /\ calls[i].via = "save_current"
              => /\ calls[i].errors \subseteq errors
                 /\ \/ calls[i].errors = {"Cannot overwrite predefined personas!"}
                    \/ calls[i].errors = {"No system prompt to save!"}
         /\ calls[i].via = "quick_save"
              => calls[i].errors = {"Quick Save not offered"}

C5_Witness ==
  \E i \in DOMAIN calls :
    /\ calls[i].op = "persona_save" /\ calls[i].via = "save_current"
    /\ calls[i].name = <<"Default">>
    /\ ~IsBlankText(calls[i].prompt)
    /\ "Cannot overwrite predefined personas!" \in errors

\* C6: in every reachable state no key of the persisted custom mapping is a
\* built-in persona name, so get_all_personas maps every built-in name to its
\* built-in prompt.
C6_NoCustomKeyIsBuiltin ==
  /\ \A i \in DOMAIN load_custom_personas(personas) :
       load_custom_personas(personas)[i].k \notin BuiltinNames
  /\ \A j \in DOMAIN PREDEFINED_PERSONAS :
       DictGet(get_all_personas(personas), PREDEFINED_PERSONAS[j].k)
         = PREDEFINED_PERSONAS[j].v

\* C7: a persona added and then deleted leaves the persisted custom mapping
\* as it was before the add, and deleting a built-in name leaves the custom
\* mapping unchanged.  `calls` is what the previous event called, `calls'`
\* what this one calls.
C7_AddThenDeleteRestores ==
  [][ /\ \A i \in DOMAIN calls, j \in DOMAIN calls' :
           (/\ calls[i].op = "persona_save" /\ calls[i].stored # AbsentName
            /\ calls'[j].op = "persona_delete" /\ calls'[j].name = calls[i].stored)
             => DictEq(calls'[j].after, calls[i].before)
      /\ \A j \in DOMAIN calls' :
           (calls'[j].op = "persona_delete" /\ calls'[j].name \in BuiltinNames)
             => DictEq(calls'[j].after, calls'[j].before) ]_vars

\* C8: a persona save with a blank name or a blank current system prompt
\* leaves the persisted custom mapping unchanged, and Save Current shows the
\* error that names the blank field; a save that changes the mapping has a
\* non-blank name and a non-blank prompt and stores exactly that entry.
C8_BlankSaveRejected ==
  \A i \in DOMAIN calls :
    calls[i].op = "persona_save"
      => /\ (IsBlankText(calls[i].name) \/ IsBlankText(calls[i].prompt))
              => /\ calls[i].after = calls[i].before
                 /\ load_custom_personas(personas) = calls[i].before
                 /\ calls[i].via = "save_current"
                      => /\ calls[i].errors \subseteq errors
                         /\ IsBlankText(calls[i].name)
                              => "Please enter a persona name!" \in errors
                         /\ ~IsBlankText(calls[i].name)
                              => "No system prompt to save!" \in errors
         /\ calls[i].after # calls[i].before
              => /\ ~IsBlankText(calls[i].name) /\ ~IsBlankText(calls[i].prompt)
                 /\ DictHas(calls[i].after, calls[i].stored)
                 /\ DictGet(calls[i].after, calls[i].stored) = calls[i].prompt
                 /\ \A k \in DOMAIN calls[i].before :
                      calls[i].before[k].k # calls[i].stored
                        => /\ DictHas(calls[i].after, calls[i].before[k].k)
                           /\ DictGet(calls[i].after, calls[i].before[k].k)
                                = calls[i].before[k].v

C8_Witness ==
  \E i \in DOMAIN calls :
    /\ calls[i].op = "persona_save" /\ calls[i].via = "save_current"
    /\ calls[i].name = <<"Foo">>
    /\ calls[i].prompt = <<" ">>
    /\ "No system prompt to save!" \in errors

\* C9: the prompt sent to the generation server is "System: <system_prompt>"
\* and a blank line when the system prompt is non-empty and nothing when it is
\* empty, followed by one "User: ..." or "Assistant: ..." line per message of
\* the history in order, the submitted user message being the last line.
ExpectedLine(m) ==
  <<(IF m.role = "user" THEN "User:" ELSE "Assistant:"), " ">> \o m.content \o <<"\n">>

RECURSIVE ExpectedLines(_, _)
ExpectedLines(ms, n) ==
  IF n = 0 THEN <<>> ELSE ExpectedLines(ms, n - 1) \o ExpectedLine(ms[n])

C9_PromptIsPreambleThenHistory ==
  \A i \in DOMAIN calls :
    calls[i].op = "generate"
      => LET sent == Append(calls[i].history,
                            [role |-> "user", content |-> calls[i].user_input])
             preamble == IF calls[i].system_prompt = <<>> THEN <<>>
                         ELSE <<"System:", " ">> \o calls[i].system_prompt \o <<"\n", "\n">>
             last == ExpectedLine(sent[Len(sent)])
             p == calls[i].prompt
         IN /\ p = preamble \o ExpectedLines(sent, Len(sent))
            /\ SubSeq(p, Len(p) - Len(last) + 1, Len(p))
                 = <<"User:", " ">> \o calls[i].user_input \o <<"\n">>
            /\ calls[i].system_prompt = <<>> => p[1] # "System:"

C9_Witness ==
  \E i \in DOMAIN calls :
    /\ calls[i].op = "generate"
    /\ calls[i].system_prompt # <<>>
    /\ Len(calls[i].history) >= 2
    /\ \E k \in DOMAIN calls[i].history : calls[i].history[k].role = "assistant"

\* C10: migrate_old_history run twice against one non-empty legacy history
\* document creates exactly one migrated conversation: the first run persists
\* one conversation with the legacy messages and system prompt and resets the
\* legacy document to its empty form, the second creates nothing and returns
\* None.
C10_MigrationTwiceCreatesOne ==
  (/\ Len(calls) >= 2
   /\ calls[1].existed
   /\ (calls[1].read.messages # <<>> \/ calls[1].read.system_prompt # <<>>))
    => /\ calls[1].ret # NoId
       /\ \A k \in 2..Len(calls) : calls[k].ret = NoId
       /\ DOMAIN files = {calls[1].ret}
       /\ Stored(calls[1].ret).messages = calls[1].read.messages
       /\ Stored(calls[1].ret).system_prompt = calls[1].read.system_prompt
       /\ Stored(calls[1].ret).name = <<"Migrated Conversation">>
       /\ history.exists
       /\ load_history(history) = [messages |-> <<>>, system_prompt |-> <<>>]

C10_Witness ==
  /\ Len(calls) = 2
  /\ calls[1].ret # NoId
  /\ Len(calls[1].read.messages) = 2
  /\ calls[1].read.system_prompt # <<>>

\* C11: list_conversations returns exactly one summary for every document of
\* the directory that can be read, skips the damaged ones, and orders the
\* summaries by updated_at descending.
Readable(doc) ==
  {doc[i].key : i \in DOMAIN doc}
    = {"id", "name", "created_at", "updated_at", "messages", "system_prompt"}

C11_ListIsReadableDocumentsNewestFirst ==
  \A i \in DOMAIN calls :
    calls[i].op = "list_conversations"
      => LET res == calls[i].result
             dir == calls[i].dir
         IN /\ {res[k].id : k \in DOMAIN res} = {id \in DOMAIN dir : Readable(dir[id])}
            /\ \A k, l \in DOMAIN res : res[k].id = res[l].id => k = l
            /\ \A k \in DOMAIN res :
                 LET doc == JsonLoadConversation(dir[res[k].id])
                 IN /\ res[k].name = doc.name
                    /\ res[k].updated_at = doc.updated_at
                    /\ res[k].message_count = Len(doc.messages)
            /\ \A k, l \in DOMAIN res : k < l => res[k].updated_at >= res[l].updated_at

C11_Witness ==
  \E i \in DOMAIN calls :
    /\ calls[i].op = "list_conversations"
    /\ Cardinality(DOMAIN calls[i].dir) = 3
    /\ \E id \in DOMAIN calls[i].dir : ~Readable(calls[i].dir[id])
    /\ Len(calls[i].result) = 2
    /\ calls[i].result[1].id < calls[i].result[2].id
    /\ calls[i].result[1].updated_at > calls[i].result[2].updated_at

\* C12: load_conversation of an id whose document exists but cannot be parsed
\* does not fail; it returns a fresh empty default conversation for that id.
C12_DamagedLoadFallsBack ==
  \A i \in DOMAIN calls :
    (calls[i].op = "load_listed" /\ calls[i].id \in DOMAIN calls[i].dir
       /\ ~Readable(calls[i].dir[calls[i].id]))
      => /\ ~calls[i].raised
         /\ calls[i].result.id = calls[i].id
         /\ calls[i].result.messages = <<>>
         /\ calls[i].result.system_prompt = <<>>

\* C13: a confirmed import of a recognised payload adds exactly one document,
\* under an id no document had, with the payload's messages and system prompt,
\* and leaves every earlier document as it was; a payload with neither
\* "conversation" nor "messages" is rejected with an error and writes nothing.
C13_ImportAddsOneDocumentWithPayload ==
  \A i \in DOMAIN calls :
    calls[i].op = "import_conversation"
      => IF calls[i].rejected
         THEN files = calls[i].before /\ "Invalid conversation format" \in errors
         ELSE /\ calls[i].id \notin DOMAIN calls[i].before
              /\ DOMAIN files = DOMAIN calls[i].before \cup {calls[i].id}
              /\ \A id \in DOMAIN calls[i].before : files[id] = calls[i].before[id]
              /\ Stored(calls[i].id).messages = calls[i].payload.messages
              /\ Stored(calls[i].id).system_prompt = calls[i].payload.system_prompt

\* C14: a send whose ollama request fails (timeout, connection error, failure
\* status) is caught: the history ends with the user message and one assistant
\* message holding the error text, the document holds both, and the run ends
\* without an uncaught exception.
C14_OllamaFailureBecomesReply ==
  \A i \in DOMAIN calls :
    (calls[i].op = "send" /\ calls[i].backend = "ollama" /\ calls[i].outcome = "error")
      => \E e \in ReplyInputs :
           LET expected == calls[i].before
                             \o << [role |-> "user", content |-> calls[i].text],
                                   [role |-> "assistant",
                                    content |-> <<"[Error:", " ">> \o e \o <<"]">>] >>
           IN /\ ss.messages = expected
              /\ calls[i].id \in DOMAIN files
              /\ Stored(calls[i].id).messages = expected
              /\ errors = {}
              /\ ss.cur = calls[i].id

C14_Witness ==
  \E i \in DOMAIN calls :
    /\ calls[i].op = "send" /\ calls[i].backend = "ollama" /\ calls[i].outcome = "error"
    /\ Len(calls[i].before) = 2
    /\ Len(Stored(calls[i].id).messages) = 4
    /\ Stored(calls[i].id).messages[4].role = "assistant"

\* C18: after Apply System Prompt on a persisted conversation with at least
\* one message the document's system_prompt is the applied text by the end of
\* that event, and so is the session's.
C18_ApplyPersistsPrompt ==
  \A i \in DOMAIN calls :
    (calls[i].op = "apply" /\ calls[i].id \in DOMAIN files
       /\ Len(Stored(calls[i].id).messages) >= 1)
      => /\ Stored(calls[i].id).system_prompt = calls[i].text
         /\ ss.system_prompt = calls[i].text

\* C19: every send, whatever the backend does, leaves the in-memory history
\* as the earlier messages followed by exactly the user message and exactly
\* one assistant message.
C19_SendAppendsUserAndReply ==
  \A i \in DOMAIN calls :
    calls[i].op = "send"
      => /\ Len(ss.messages) = Len(calls[i].before) + 2
         /\ SubSeq(ss.messages, 1, Len(calls[i].before)) = calls[i].before
         /\ ss.messages[Len(calls[i].before) + 1] = [role |-> "user", content |-> calls[i].text]
         /\ ss.messages[Len(calls[i].before) + 2].role = "assistant"

\* C16: after New Conversation with at least one conversation persisted, the
\* active conversation at the end of the event is the new one, whose id is
\* not the id of any document.
C16_NewConversationStaysActive ==
  \A i \in DOMAIN calls :
    (calls[i].op = "new_conversation" /\ calls[i].listed >= 1)
      => /\ ss.cur = calls[i].id
         /\ ss.cur \notin DOMAIN files

\* C17: selecting a persisted conversation, with nothing else done in that
\* event, leaves its document as it was.
C17_SelectLeavesDocument ==
  \A i \in DOMAIN calls :
    calls[i].op = "select_conversation"
      => /\ calls[i].id \in DOMAIN files
         /\ files[calls[i].id] = calls[i].doc

\* C20: Delete This Conversation acts only when more than one conversation is
\* listed; it removes the active conversation's document and no other, at
\* least one document remains, and the conversation active afterwards is a
\* persisted one.  Where the button is not offered nothing is removed.
C20_DeleteRemovesOnlyActive ==
  \A i \in DOMAIN calls :
    /\ calls[i].op = "delete_conversation"
         => /\ calls[i].listed > 1
            /\ calls[i].id \in DOMAIN calls[i].before
            /\ DOMAIN files = DOMAIN calls[i].before \ {calls[i].id}
            /\ DOMAIN files # {}
            /\ ss.cur \in DOMAIN files
            /\ ss.cur # calls[i].id
    /\ calls[i].op = "delete_not_offered"
         => /\ calls[i].listed <= 1
            /\ DOMAIN files = DOMAIN calls[i].before

C20_Witness ==
  \E i \in DOMAIN calls :
    /\ calls[i].op = "delete_conversation"
    /\ Cardinality(DOMAIN calls[i].before) = 2
    /\ Cardinality(DOMAIN files) = 1
    /\ ss.cur \in DOMAIN files

\* C15: with two sessions on the same conversation and no locking, after a
\* send that saved, the document is the in-memory history of the session
\* whose save ran last: its earlier history followed by its own two messages,
\* never the other session's messages merged in.
C15_LastWriterWins ==
  \A i, j \in DOMAIN calls :
    (calls[i].op = "send" /\ calls[i].outcome # "raise" /\ calls[j].op = "session")
      => LET last == IF calls[j].who = 1 THEN ss ELSE ss2
         IN /\ last.cur = calls[i].id
            /\ Stored(calls[i].id).messages = last.messages
            /\ Len(last.messages) = Len(calls[i].before) + 2
            /\ SubSeq(last.messages, 1, Len(calls[i].before)) = calls[i].before

C15_Witness ==
  \E i, j \in DOMAIN calls :
    /\ calls[i].op = "send" /\ calls[i].outcome # "raise"
    /\ calls[j].op = "session" /\ calls[j].who = 2
    /\ ss.cur = ss2.cur
    /\ Len(ss.messages) = 3 /\ ss.messages[3].role = "assistant"
    /\ ss.messages # ss2.messages
    /\ Stored(ss2.cur).messages = ss2.messages

====
